---- MODULE Spec2Model ----
(***************************************************************************)
(* Model of analyze_expenses_v2.py: the location parser parse_location and *)
(* the aggregation / summary pipeline of main.                             *)
(*                                                                         *)
(* A Python str is a sequence of one-character strings.  pandas' missing   *)
(* value (None / NaN) is the model value NULL.  Amounts are integers.      *)
(***************************************************************************)
EXTENDS Integers, Sequences, FiniteSets, TLC

VARIABLES
    loc,        \* parse_location: the argument
    ppc,        \* parse_location: position ("start", "rules", "fallback", "return")
    s,          \* parse_location: the normalized string (line 34)
    res,        \* parse_location: the returned record
    input,      \* main: the workbook read by pd.read_excel
    pc,         \* main: position in main
    df,         \* main: the enriched data frame (sequence of rows)
    agg,        \* main: the KPI scalars and the grouped series of lines 146-157
    summary,    \* main: the summary dict
    artifacts   \* main: the output files written so far

pvars == <<loc, ppc, s, res>>
mvars == <<input, pc, df, agg, summary, artifacts>>
vars == <<loc, ppc, s, res, input, pc, df, agg, summary, artifacts>>

\* None / NaN: a sequence that is no str (its one element is not a character)
NULL == <<"NaN">>
Unknown == <<"U", "n", "k", "n", "o", "w", "n">>

(***************************************************************************)
(* str primitives                                                          *)
(***************************************************************************)
Whitespace == {" ", "\t"}
Separators == {" ", ",", "-", "_"}
UpperCase == <<"A", "B", "C", "D", "E", "F", "G", "H", "I", "J", "K", "L", "M", "N", "O", "P", "Q", "R", "S", "T", "U", "V", "W", "X", "Y", "Z">>
LowerCase == <<"a", "b", "c", "d", "e", "f", "g", "h", "i", "j", "k", "l", "m", "n", "o", "p", "q", "r", "s", "t", "u", "v", "w", "x", "y", "z">>
UpperSet == {UpperCase[i] : i \in 1..26}
LowerTab == [c \in UpperSet |-> LowerCase[CHOOSE i \in 1..26 : UpperCase[i] = c]]

\* code point order of the characters used: tab < space < , < - < 0-9 < A-Z < _ < a-z
OrdTab ==
    [c \in UpperSet \cup {LowerCase[i] : i \in 1..26} \cup Whitespace \cup Separators
            \cup {"0", "1", "2", "3", "4", "5", "6", "7", "8", "9"} |->
        IF c = "\t" THEN 9
        ELSE IF c \in {"0", "1", "2", "3", "4", "5", "6", "7", "8", "9"}
        THEN 47 + (CHOOSE i \in 1..10 : <<"0", "1", "2", "3", "4", "5", "6", "7", "8", "9">>[i] = c)
        ELSE IF c = " " THEN 32
        ELSE IF c = "," THEN 44
        ELSE IF c = "-" THEN 45
        ELSE IF c = "_" THEN 95
        ELSE IF c \in UpperSet THEN 64 + (CHOOSE i \in 1..26 : UpperCase[i] = c)
        ELSE 96 + (CHOOSE i \in 1..26 : LowerCase[i] = c)]

LowerChar(c) == IF c \in UpperSet THEN LowerTab[c] ELSE c
Lower(x) == [i \in 1..Len(x) |-> LowerChar(x[i])]

RECURSIVE LStrip(_, _)
LStrip(x, cs) == IF x # <<>> /\ Head(x) \in cs THEN LStrip(Tail(x), cs) ELSE x

RECURSIVE RStrip(_, _)
RStrip(x, cs) ==
    IF x # <<>> /\ x[Len(x)] \in cs THEN RStrip(SubSeq(x, 1, Len(x) - 1), cs) ELSE x

Strip(x, cs) == RStrip(LStrip(x, cs), cs)

\* re.sub(r"\s+", " ", x)
RECURSIVE CollapseWs(_)
CollapseWs(x) ==
    IF x = <<>> THEN <<>>
    ELSE IF Head(x) \in Whitespace THEN <<" ">> \o CollapseWs(LStrip(x, Whitespace))
    ELSE <<Head(x)>> \o CollapseWs(Tail(x))

StartsWith(x, p) == Len(x) >= Len(p) /\ SubSeq(x, 1, Len(p)) = p

\* x[n:]
From(x, n) == SubSeq(x, n + 1, Len(x))

\* index of the first character of x that is in cs, 0 when there is none
FindFirst(x, cs) ==
    IF \E i \in 1..Len(x) : x[i] \in cs
    THEN CHOOSE i \in 1..Len(x) : x[i] \in cs /\ \A j \in 1..(i - 1) : x[j] \notin cs
    ELSE 0

\* x.split(sep, 1) and re.split(r"[_-]", x, maxsplit=1): the list of parts
SplitOnce(x, cs) ==
    LET i == FindFirst(x, cs)
    IN  IF i = 0 THEN <<x>> ELSE <<SubSeq(x, 1, i - 1), From(x, i)>>

\* x.split(): the whitespace-separated words
RECURSIVE SplitWords(_)
SplitWords(x) ==
    LET y == LStrip(x, Whitespace)
        i == FindFirst(y, Whitespace)
    IN  IF y = <<>> THEN <<>>
        ELSE IF i = 0 THEN <<y>>
        ELSE <<SubSeq(y, 1, i - 1)>> \o SplitWords(From(y, i))

\* " ".join(ws)
RECURSIVE Join(_)
Join(ws) ==
    IF ws = <<>> THEN <<>>
    ELSE IF Len(ws) = 1 THEN ws[1]
    ELSE ws[1] \o <<" ">> \o Join(Tail(ws))

\* a or "Unknown"
OrUnknown(a) == IF a # <<>> THEN a ELSE Unknown

(***************************************************************************)
(* parse_location                                                          *)
(***************************************************************************)
isna(x) == x = NULL

\* line 34: re.sub(r"\s+", " ", str(loc).strip())
Normalize(x) == CollapseWs(Strip(x, Whitespace))

Ret(m, a, r) == [merchant |-> m, area |-> a, rule |-> r]
NoMatch == Ret(<<>>, <<>>, "no match")

\* lines 62-66: re.match(r"(?i)(dupoint|dupont)\s+lounge\s*(.*)", s), group 2
\* stripped, or "" when there is no match
DupointArea(x) ==
    LET low == Lower(x)
        n == IF StartsWith(low, <<"d", "u", "p", "o", "i", "n", "t">>) THEN 7 ELSE 6
        a1 == From(x, n)
        a2 == LStrip(a1, Whitespace)
        a3 == From(a2, 6)
    IN  IF a1 # <<>> /\ Head(a1) \in Whitespace /\ StartsWith(Lower(a2), <<"l", "o", "u", "n", "g", "e">>)
        THEN Strip(LStrip(a3, Whitespace), Whitespace)
        ELSE <<>>

\* lines 38-106: the brand rules in source order; NoMatch when no rule matches
BrandRules(x) ==
    LET low == Lower(x)
    IN  IF StartsWith(low, <<"s", "h", "e", "l", "l">>)
        THEN Ret(<<"S", "h", "e", "l", "l">>, OrUnknown(Strip(From(x, 5), Separators)), "shell")
        ELSE IF StartsWith(low, <<"t", "o", "t", "a", "l">>)
        THEN Ret(<<"T", "o", "t", "a", "l">>, OrUnknown(Strip(From(x, 5), Separators)), "total")
        ELSE IF StartsWith(low, <<"h", "o", "m", "e">>)
        THEN LET parts == SplitOnce(x, {"_", "-"})
                 area == IF Len(parts) > 1 THEN Strip(parts[2], Whitespace)
                         ELSE Strip(From(x, 4), Separators)
             IN  Ret(<<"H", "o", "m", "e">>, OrUnknown(area), "home")
        ELSE IF StartsWith(low, <<"l", "o", "v", "e", " ", "d", "a", "l", "e", " ", "b", "u", "t", "c", "h", "e", "r", "y">>) \/ StartsWith(low, <<"l", "o", "v", "e", " ", "d", "a", "l", "e">>)
        THEN LET area == IF \E i \in 1..Len(x) : x[i] = "_"
                         THEN Strip(SplitOnce(x, {"_"})[2], Whitespace)
                         ELSE Strip(From(x, Len(<<"L", "o", "v", "e", " ", "D", "a", "l", "e", " ", "B", "u", "t", "c", "h", "e", "r", "y">>)), Separators)
             IN  Ret(<<"L", "o", "v", "e", " ", "D", "a", "l", "e", " ", "B", "u", "t", "c", "h", "e", "r", "y">>, OrUnknown(area), "love dale")
        ELSE IF StartsWith(low, <<"d", "u", "p", "o", "i", "n", "t">>) \/ StartsWith(low, <<"d", "u", "p", "o", "n", "t">>)
        THEN Ret(<<"D", "u", "p", "o", "i", "n", "t", " ", "L", "o", "u", "n", "g", "e">>, OrUnknown(DupointArea(x)), "dupoint")
        ELSE IF StartsWith(low, <<"g", "r", "e", "e", "n", "v", "i", "e", "w">>)
        THEN Ret(<<"G", "r", "e", "e", "n", "v", "i", "e", "w", " ", "R", "e", "s", "t", "a", "u", "r", "a", "n", "t">>,
                 OrUnknown(Strip(From(x, Len(<<"G", "r", "e", "e", "n", "v", "i", "e", "w">>)), Separators)), "greenview")
        ELSE IF StartsWith(low, <<"f", "i", "s", "h", " ", "p", "i", "t", " ", "h", "u", "b">>)
        THEN Ret(<<"F", "i", "s", "h", " ", "P", "i", "t", " ", "H", "u", "b">>,
                 OrUnknown(Strip(From(x, Len(<<"F", "i", "s", "h", " ", "p", "i", "t", " ", "h", "u", "b">>)), Separators)), "fish pit hub")
        ELSE IF StartsWith(low, <<"j", "u", "n", "c", "t", "i", "o", "n", " ", "p", "i", "z", "z", "a", " ", "i", "n", "n">>)
        THEN Ret(<<"P", "i", "z", "z", "a", " ", "I", "n", "n">>, <<"J", "u", "n", "c", "t", "i", "o", "n", " ", "M", "a", "l", "l">>, "junction pizza inn")
        ELSE IF StartsWith(low, <<"j", "u", "n", "c", "t", "i", "o", "n", " ", "m", "a", "l", "l">>)
        THEN Ret(<<"J", "u", "n", "c", "t", "i", "o", "n", " ", "M", "a", "l", "l">>, <<"J", "u", "n", "c", "t", "i", "o", "n", " ", "M", "a", "l", "l">>, "junction mall")
        ELSE IF StartsWith(low, <<"l", "e", "o", "f", "r", "e", "s", "h">>)
        THEN Ret(<<"L", "e", "o", "F", "r", "e", "s", "h">>,
                 OrUnknown(Strip(From(x, Len(<<"L", "e", "o", "F", "r", "e", "s", "h">>)), Separators)), "leofresh")
        ELSE IF StartsWith(low, <<"n", "a", "i", "r", "o", "b", "i", " ", "c", "h", "a", "p", "e", "l">>)
        THEN Ret(<<"N", "a", "i", "r", "o", "b", "i", " ", "C", "h", "a", "p", "e", "l">>,
                 OrUnknown(Strip(From(x, Len(<<"N", "a", "i", "r", "o", "b", "i", " ", "C", "h", "a", "p", "e", "l">>)), Separators)), "nairobi chapel")
        ELSE IF StartsWith(low, <<"k", "a", "r", "u", "r", "a", " ", "f", "o", "r", "e", "s", "t">>)
        THEN Ret(<<"K", "a", "r", "u", "r", "a", " ", "F", "o", "r", "e", "s", "t">>, <<"K", "a", "r", "u", "r", "a">>, "karura forest")
        ELSE IF StartsWith(low, <<"r", "o", "c", "k", "w", "e", "l", "l">>)
        THEN Ret(<<"R", "o", "c", "k", "w", "e", "l", "l", " ", "S", "e", "r", "v", "i", "c", "e", " ", "S", "t", "a", "t", "i", "o", "n">>,
                 OrUnknown(Strip(From(x, Len(<<"R", "o", "c", "k", "w", "e", "l", "l">>)), Separators)), "rockwell")
        ELSE IF StartsWith(low, <<"k", "i", "s", "i", "i">>)
        THEN Ret(<<"K", "i", "s", "i", "i", " ", "C", "o", "n", "t", "r", "i", "b", "u", "t", "i", "o", "n">>, <<"K", "i", "s", "i", "i">>, "kisii")
        ELSE IF StartsWith(low, <<"n", "a", "i", "v", "a", "s", "h", "a", " ", "r", "o", "a", "d">>)
        THEN Ret(<<"N", "a", "i", "v", "a", "s", "h", "a", " ", "R", "o", "a", "d">>, <<"N", "a", "i", "v", "a", "s", "h", "a", " ", "R", "o", "a", "d">>, "naivasha road")
        ELSE NoMatch

\* the fallbacks with the underscore split taken at the last underscore
Fallback_rsplit(x) ==
    IF \E i \in 1..Len(x) : x[i] = "_"
    THEN LET i == CHOOSE i \in 1..Len(x) : x[i] = "_" /\ \A j \in (i + 1)..Len(x) : x[j] # "_"
         IN  Ret(OrUnknown(Strip(SubSeq(x, 1, i - 1), Whitespace)),
                 OrUnknown(Strip(From(x, i), Whitespace)), "underscore")
    ELSE LET words == SplitWords(x)
         IN  IF Len(words) <= 2
             THEN Ret(x, Unknown, "words")
             ELSE Ret(Join(SubSeq(words, 1, 2)),
                      OrUnknown(Join(SubSeq(words, 3, Len(words)))), "first two words")

\* lines 108-117: the generic fallbacks
Fallback(x) ==
    IF \E i \in 1..Len(x) : x[i] = "_"
    THEN LET parts == SplitOnce(x, {"_"})
         IN  Ret(OrUnknown(Strip(parts[1], Whitespace)),
                 OrUnknown(Strip(parts[2], Whitespace)), "underscore")
    ELSE LET words == SplitWords(x)
         IN  IF Len(words) <= 2
             THEN Ret(x, Unknown, "words")
             ELSE Ret(Join(SubSeq(words, 1, 2)),
                      OrUnknown(Join(SubSeq(words, 3, Len(words)))), "first two words")

\* lines 30-117 as a function of the argument
ParseOutcome(x) ==
    IF isna(x) THEN Ret(Unknown, Unknown, "isna")
    ELSE LET n == Normalize(x)
             b == BrandRules(n)
         IN  IF b # NoMatch THEN b ELSE Fallback(n)

parse_location(x) == LET o == ParseOutcome(x) IN <<o.merchant, o.area>>

(***************************************************************************)
(* parse_location as a process: the argument is drawn from strings built   *)
(* of a leading piece and up to MaxTokens further pieces                   *)
(***************************************************************************)
MaxTokens == 3

Prefixes ==
    { <<>>, <<"A", "b", "e">>, <<"J", "a", "v", "a", " ", "H", "o", "u", "s", "e">>, <<"S", "h", "e", "l", "l">>, <<"S", "H", "E", "L", "L">>, <<"\t", " ", "S", "h", "e", "l", "l">>, <<"T", "o", "t", "a", "l">>,
      <<"H", "o", "m", "e">>, <<"L", "o", "v", "e", " ", "D", "a", "l", "e">>, <<"l", "o", "v", "e", " ", "d", "a", "l", "e">>, <<"L", "o", "v", "e", " ", "D", "a", "l", "e", " ", "B", "u", "t", "c", "h", "e", "r", "y">>, <<"D", "u", "p", "o", "i", "n", "t">>,
      <<"D", "u", "p", "o", "n", "t">>, <<"D", "u", "p", "o", "i", "n", "t", " ", "L", "o", "u", "n", "g", "e">>, <<"G", "r", "e", "e", "n", "v", "i", "e", "w">>, <<"F", "i", "s", "h", " ", "P", "i", "t", " ", "H", "u", "b">>,
      <<"J", "u", "n", "c", "t", "i", "o", "n", " ", "P", "i", "z", "z", "a", " ", "I", "n", "n">>, <<"J", "u", "n", "c", "t", "i", "o", "n", " ", "M", "a", "l", "l">>, <<"L", "e", "o", "F", "r", "e", "s", "h">>, <<"N", "a", "i", "r", "o", "b", "i", " ", "C", "h", "a", "p", "e", "l">>,
      <<"K", "a", "r", "u", "r", "a", " ", "F", "o", "r", "e", "s", "t">>, <<"R", "o", "c", "k", "w", "e", "l", "l">>, <<"K", "i", "s", "i", "i">>, <<"N", "a", "i", "v", "a", "s", "h", "a", " ", "R", "o", "a", "d">> }

TailTokens ==
    { <<" ">>, <<"\t">>, <<"_">>, <<"-">>, <<",">>, <<"A", "b", "e">>, <<"L", "o", "u", "n", "g", "e">>, <<"K", "i", "k", "u", "y", "u", " ", "T", "o", "w", "n">> }

RECURSIVE Concat(_)
Concat(ts) == IF ts = <<>> THEN <<>> ELSE Head(ts) \o Concat(Tail(ts))

Inputs ==
    { p \o Concat(ts) : p \in Prefixes,
                        ts \in UNION { [1..n -> TailTokens] : n \in 0..MaxTokens } }

NoAgg ==
    [total |-> 0, n |-> 0, avg |-> [num |-> 0, den |-> 0], median |-> [num |-> 0, den |-> 0],
     date_min |-> <<>>, date_max |-> <<>>, monthly |-> <<>>, type_tot |-> <<>>, pay_tot |-> <<>>,
     merch_tot |-> <<>>, area_tot |-> <<>>]

NoSummary ==
    [currency |-> "KES",
     date_range |-> [start |-> <<>>, end |-> <<>>],
     kpis |-> [total_spend |-> 0, transactions |-> 0,
               avg_txn |-> [num |-> 0, den |-> 0], median_txn |-> [num |-> 0, den |-> 0],
               highest_month |-> [month |-> <<>>, amount |-> 0],
               lowest_month |-> [month |-> <<>>, amount |-> 0]],
     by_type |-> <<>>, by_payment |-> <<>>, top_merchants |-> <<>>, top_areas |-> <<>>,
     shell_by_station |-> <<>>, monthly_totals |-> <<>>]

IdleMain ==
    /\ input = [missing |-> "", rows |-> <<>>]
    /\ pc = "idle"
    /\ df = <<>>
    /\ agg = NoAgg
    /\ summary = NoSummary
    /\ artifacts = {}

InitParse ==
    /\ loc \in {NULL} \cup Inputs
    /\ ppc = "start"
    /\ s = <<>>
    /\ res = NoMatch
    /\ IdleMain

\* lines 32-33
ReturnNa ==
    /\ ppc = "start"
    /\ isna(loc)
    /\ res' = Ret(Unknown, Unknown, "isna")
    /\ ppc' = "return"
    /\ UNCHANGED <<loc, s, mvars>>

\* lines 34-35
NormalizeStep ==
    /\ ppc = "start"
    /\ ~isna(loc)
    /\ s' = Normalize(loc)
    /\ ppc' = "rules"
    /\ UNCHANGED <<loc, res, mvars>>

\* lines 38-106, a rule matches
BrandReturn ==
    /\ ppc = "rules"
    /\ BrandRules(s) # NoMatch
    /\ res' = BrandRules(s)
    /\ ppc' = "return"
    /\ UNCHANGED <<loc, s, mvars>>

\* lines 38-106, no rule matches
BrandFallThrough ==
    /\ ppc = "rules"
    /\ BrandRules(s) = NoMatch
    /\ ppc' = "fallback"
    /\ UNCHANGED <<loc, s, res, mvars>>

\* lines 109-117
FallbackReturn ==
    /\ ppc = "fallback"
    /\ res' = Fallback(s)
    /\ ppc' = "return"
    /\ UNCHANGED <<loc, s, mvars>>

NextParse == ReturnNa \/ NormalizeStep \/ BrandReturn \/ BrandFallThrough \/ FallbackReturn

SpecParse == InitParse /\ [][NextParse]_vars

(***************************************************************************)
(* pandas primitives used by main                                          *)
(***************************************************************************)
Digits == <<"0", "1", "2", "3", "4", "5", "6", "7", "8", "9">>

\* str order by code point (the order groupby and sort_index put keys in)
RECURSIVE StrLess(_, _)
StrLess(a, b) ==
    IF b = <<>> THEN FALSE
    ELSE IF a = <<>> THEN TRUE
    ELSE IF Head(a) # Head(b) THEN OrdTab[Head(a)] < OrdTab[Head(b)]
    ELSE StrLess(Tail(a), Tail(b))

\* dt.to_period("M").astype(str): "YYYY-MM"
MonthLabel(d) ==
    LET y == d[1]
        m == d[2]
    IN  << Digits[((y \div 1000) % 10) + 1], Digits[((y \div 100) % 10) + 1],
           Digits[((y \div 10) % 10) + 1], Digits[(y % 10) + 1], "-",
           Digits[(m \div 10) + 1], Digits[(m % 10) + 1] >>

\* Series.sum() of the Amount column of a sequence of rows
RECURSIVE SumAmount(_)
SumAmount(rows) == IF rows = <<>> THEN 0 ELSE Head(rows).Amount + SumAmount(Tail(rows))

\* the Amount column in ascending order
RECURSIVE Insert(_, _)
Insert(v, sorted) ==
    IF sorted = <<>> THEN <<v>>
    ELSE IF v <= Head(sorted) THEN <<v>> \o sorted
    ELSE <<Head(sorted)>> \o Insert(v, Tail(sorted))

RECURSIVE SortedAmounts(_)
SortedAmounts(rows) ==
    IF rows = <<>> THEN <<>> ELSE Insert(Head(rows).Amount, SortedAmounts(Tail(rows)))

\* Series.mean() and Series.median() as fractions
Mean(rows) == [num |-> SumAmount(rows), den |-> Len(rows)]

Median(rows) ==
    LET a == SortedAmounts(rows)
        n == Len(a)
    IN  IF n % 2 = 1 THEN [num |-> a[(n + 1) \div 2], den |-> 1]
        ELSE [num |-> a[n \div 2] + a[(n \div 2) + 1], den |-> 2]

DateLess(a, b) ==
    \/ a[1] < b[1]
    \/ a[1] = b[1] /\ a[2] < b[2]
    \/ a[1] = b[1] /\ a[2] = b[2] /\ a[3] < b[3]

\* df["Date"].min() and df["Date"].max()
DateMin(rows) ==
    CHOOSE d \in {rows[i].Date : i \in 1..Len(rows)} :
        \A j \in 1..Len(rows) : ~DateLess(rows[j].Date, d)

DateMax(rows) ==
    CHOOSE d \in {rows[i].Date : i \in 1..Len(rows)} :
        \A j \in 1..Len(rows) : ~DateLess(d, rows[j].Date)

RECURSIVE SelectRows(_, _, _)
SelectRows(rows, col, k) ==
    IF rows = <<>> THEN <<>>
    ELSE IF Head(rows)[col] = k THEN <<Head(rows)>> \o SelectRows(Tail(rows), col, k)
    ELSE SelectRows(Tail(rows), col, k)

\* the keys of a set in ascending order
RECURSIVE SortKeys(_)
SortKeys(ks) ==
    IF ks = {} THEN <<>>
    ELSE LET k == CHOOSE x \in ks : \A y \in ks \ {x} : StrLess(x, y)
         IN  <<k>> \o SortKeys(ks \ {k})

\* rows.groupby(col)["Amount"].sum(): one entry per key, keys ascending,
\* rows whose key is missing are dropped (dropna=True)
GroupSum(rows, col) ==
    LET ks == SortKeys({rows[i][col] : i \in 1..Len(rows)} \ {NULL})
    IN  [i \in 1..Len(ks) |-> [key |-> ks[i], amount |-> SumAmount(SelectRows(rows, col, ks[i]))]]

Range(f) == {f[i] : i \in DOMAIN f}

RECURSIVE DescOrders(_)
DescOrders(es) ==
    IF es = {} THEN {<<>>}
    ELSE LET top == {e \in es : \A x \in es : x.amount <= e.amount}
         IN  UNION { { <<e>> \o t : t \in DescOrders(es \ {e}) } : e \in top }

SortValuesAsc(series) ==
    { [i \in 1..Len(o) |-> o[Len(o) + 1 - i]] : o \in DescOrders(Range(series)) }

\* series.sort_values(ascending=False) with the default kind="quicksort":
\* every descending order of the entries; the order of equal sums is not fixed
SortValuesDesc(series) == DescOrders(Range(series))

\* series.head(n)
HeadN(series, n) == SubSeq(series, 1, IF Len(series) < n THEN Len(series) ELSE n)

\* series.max() and series.min()
SeriesMax(series) ==
    LET i == CHOOSE i \in 1..Len(series) : \A j \in 1..Len(series) : series[j].amount <= series[i].amount
    IN  series[i].amount

SeriesMin(series) ==
    LET i == CHOOSE i \in 1..Len(series) : \A j \in 1..Len(series) : series[j].amount >= series[i].amount
    IN  series[i].amount

\* series.idxmax(): the label of the first entry holding the maximum
IdxMax(series) ==
    LET i == CHOOSE i \in 1..Len(series) :
                 /\ series[i].amount = SeriesMax(series)
                 /\ \A j \in 1..(i - 1) : series[j].amount # SeriesMax(series)
    IN  series[i].key

IdxMin_last(series) ==
    LET i == CHOOSE i \in 1..Len(series) :
                 /\ series[i].amount = SeriesMin(series)
                 /\ \A j \in (i + 1)..Len(series) : series[j].amount # SeriesMin(series)
    IN  series[i].key

\* series.idxmin(): the label of the first entry holding the minimum
IdxMin(series) ==
    LET i == CHOOSE i \in 1..Len(series) :
                 /\ series[i].amount = SeriesMin(series)
                 /\ \A j \in 1..(i - 1) : series[j].amount # SeriesMin(series)
    IN  series[i].key

\* round half to even of p / q, q > 0
RoundHalfEven(p, q) ==
    LET f == p \div q
        r == p % q
    IN  IF 2 * r < q THEN f
        ELSE IF 2 * r > q THEN f + 1
        ELSE IF f % 2 = 0 THEN f ELSE f + 1

\* (x / total * 100).round(1) in float arithmetic: tenths of a per cent, or
\* the IEEE result of dividing by zero
SharePct(x, total) ==
    IF total = 0
    THEN [kind |-> IF x = 0 THEN "nan" ELSE IF x > 0 THEN "inf" ELSE "-inf", tenths |-> 0]
    ELSE [kind |-> "finite",
          tenths |-> IF total > 0 THEN RoundHalfEven(1000 * x, total)
                     ELSE RoundHalfEven(-1000 * x, -total)]

(***************************************************************************)
(* main                                                                    *)
(***************************************************************************)
TopN == 10
HeatmapN == 8
MaxRows == 2
MaxMerchants == 11

RequiredColumns == {"Date", "Amount", "Location", "Type", "Payment type"}

Num(k) == [numeric |-> TRUE, value |-> k]
Text == [numeric |-> FALSE, value |-> 0]
BadDate == <<>>

Dates == { <<2024, 1, 15>>, <<2024, 2, 10>>, BadDate }
Amounts == { Num(-1), Num(1), Num(2), Text }
Labels ==
    { [Location |-> <<"S", "h", "e", "l", "l", " ", "Z", "e", "d">>, Type |-> <<"R", "e", "n", "t">>, Payment |-> <<"M", "p", "e", "s", "a">>],
      [Location |-> <<"S", "h", "e", "l", "l", " ", "A", "b", "e">>, Type |-> <<"F", "o", "o", "d">>, Payment |-> <<"C", "a", "s", "h">>],
      [Location |-> <<"S", "h", "e", "l", "l", " ", "A", "b", "e">>, Type |-> NULL, Payment |-> <<"C", "a", "s", "h">>],
      [Location |-> <<"H", "o", "m", "e", "_", "K", "a", "y">>, Type |-> <<"F", "o", "o", "d">>, Payment |-> NULL],
      [Location |-> NULL, Type |-> <<"R", "e", "n", "t">>, Payment |-> <<"C", "a", "s", "h">>] }

RawRow(d, a, l) ==
    [Date |-> d, Amount |-> a, Location |-> l.Location, Type |-> l.Type, Payment |-> l.Payment]

RowPool == { RawRow(d, a, l) : d \in Dates, a \in Amounts, l \in Labels }

SmallLedgers == UNION { [1..n -> RowPool] : n \in 0..MaxRows }

\* n rows of n different merchants and areas over three months, with the
\* amounts 1..n rotated by r
WideRow(i, n, r) ==
    RawRow(IF i % 3 = 1 THEN <<2024, 1, 15>>
           ELSE IF i % 3 = 2 THEN <<2024, 2, 10>> ELSE <<2024, 3, 5>>,
           Num(((i + r) % n) + 1),
           [Location |-> <<"m", LowerCase[i], "_", "a", LowerCase[i]>>,
            Type |-> <<"F", "o", "o", "d">>, Payment |-> <<"C", "a", "s", "h">>])

WideLedgers ==
    { [i \in 1..n |-> WideRow(i, n, r)] : n \in 1..MaxMerchants, r \in 0..2 }

Workbooks ==
    { [missing |-> "", rows |-> rs] : rs \in SmallLedgers \cup WideLedgers }
    \cup { [missing |-> c, rows |-> rs] : c \in RequiredColumns, rs \in [1..1 -> RowPool] }

Charts1to5 ==
    { "01_monthly_spend.png", "02_spend_by_type.png", "03_payment_method.png",
      "04_top_merchants.png", "05_top_areas.png" }

IdleParse ==
    /\ loc = NULL
    /\ ppc = "idle"
    /\ s = <<>>
    /\ res = NoMatch

Init ==
    /\ input \in Workbooks
    /\ pc = "enrich"
    /\ df = <<>>
    /\ agg = NoAgg
    /\ summary = NoSummary
    /\ artifacts = {}
    /\ IdleParse

\* lines 141-144: one enriched row
EnrichRow(r) ==
    LET p == parse_location(r.Location)
    IN  [Date |-> r.Date,
         Amount |-> IF r.Amount.numeric THEN r.Amount.value ELSE 0,
         Location |-> r.Location, Type |-> r.Type, Payment |-> r.Payment,
         Merchant |-> p[1], Area |-> p[2], Month |-> MonthLabel(r.Date)]

\* lines 140-144 raise: a column is missing, a date does not parse, or the
\* frame is empty (line 143 cannot assign two columns from an empty apply)
EnrichRaises ==
    \/ input.missing \in {"Date", "Amount", "Location"}
    \/ \E i \in 1..Len(input.rows) : input.rows[i].Date = BadDate
    \/ input.rows = <<>>

EnrichFail ==
    /\ pc = "enrich"
    /\ EnrichRaises
    /\ pc' = "failed"
    /\ UNCHANGED <<input, df, agg, summary, artifacts, pvars>>

Enrich ==
    /\ pc = "enrich"
    /\ ~EnrichRaises
    /\ df' = [i \in 1..Len(input.rows) |-> EnrichRow(input.rows[i])]
    /\ pc' = "aggregate"
    /\ UNCHANGED <<input, agg, summary, artifacts, pvars>>

\* lines 154-155 raise KeyError when the column is missing
AggregateFail ==
    /\ pc = "aggregate"
    /\ input.missing \in {"Type", "Payment type"}
    /\ pc' = "failed"
    /\ UNCHANGED <<input, df, agg, summary, artifacts, pvars>>

\* lines 146-157
Aggregate ==
    /\ pc = "aggregate"
    /\ input.missing \notin {"Type", "Payment type"}
    /\ \E tt \in SortValuesDesc(GroupSum(df, "Type")),
          pt \in SortValuesDesc(GroupSum(df, "Payment")),
          mt \in SortValuesDesc(GroupSum(df, "Merchant")),
          at \in SortValuesDesc(GroupSum(df, "Area")) :
            agg' = [total |-> SumAmount(df),
                    n |-> Len(df),
                    avg |-> Mean(df),
                    median |-> Median(df),
                    date_min |-> DateMin(df),
                    date_max |-> DateMax(df),
                    monthly |-> GroupSum(df, "Month"),
                    type_tot |-> tt,
                    pay_tot |-> pt,
                    merch_tot |-> mt,
                    area_tot |-> at]
    /\ pc' = "charts"
    /\ UNCHANGED <<input, df, summary, artifacts, pvars>>

\* lines 161-213: charts 01 to 05 are saved
SaveCharts ==
    /\ pc = "charts"
    /\ artifacts' = artifacts \cup Charts1to5
    /\ pc' = "heatmap"
    /\ UNCHANGED <<input, df, agg, summary, pvars>>

\* line 216
top_areas_list == [i \in 1..Len(HeadN(agg.area_tot, HeatmapN)) |-> HeadN(agg.area_tot, HeatmapN)[i].key]

\* lines 217-219: the index of the pivot table; a row whose Type is missing
\* takes no part in it (dropna=True)
PivotIndex ==
    { df[i].Area : i \in { j \in 1..Len(df) : df[j].Area \in Range(top_areas_list)
                                              /\ df[j].Type # NULL } }

\* line 220: pivot.loc[top_areas_list] raises KeyError on a label not in the index
HeatmapRaises == \E a \in Range(top_areas_list) : a \notin PivotIndex

HeatmapFail ==
    /\ pc = "heatmap"
    /\ HeatmapRaises
    /\ pc' = "failed"
    /\ UNCHANGED <<input, df, agg, summary, artifacts, pvars>>

\* lines 216-237
Heatmap ==
    /\ pc = "heatmap"
    /\ ~HeatmapRaises
    /\ artifacts' = artifacts \cup {"06_area_type_heatmap.png"}
    /\ pc' = "summary"
    /\ UNCHANGED <<input, df, agg, summary, pvars>>

WithShare(series, total) ==
    [i \in 1..Len(series) |->
        [key |-> series[i].key, amount |-> series[i].amount,
         share_pct |-> SharePct(series[i].amount, total)]]

\* lines 240-263
BuildSummary ==
    /\ pc = "summary"
    /\ \E sa \in SortValuesDesc(GroupSum(SelectRows(df, "Merchant", <<"S", "h", "e", "l", "l">>), "Area")) :
        summary' =
            [currency |-> "KES",
             date_range |-> [start |-> agg.date_min, end |-> agg.date_max],
             kpis |-> [total_spend |-> agg.total,
                       transactions |-> agg.n,
                       avg_txn |-> agg.avg,
                       median_txn |-> agg.median,
                       highest_month |-> [month |-> IdxMax(agg.monthly),
                                          amount |-> SeriesMax(agg.monthly)],
                       lowest_month |-> [month |-> IdxMin(agg.monthly),
                                         amount |-> SeriesMin(agg.monthly)]],
             by_type |-> WithShare(agg.type_tot, agg.total),
             by_payment |-> WithShare(agg.pay_tot, agg.total),
             top_merchants |-> HeadN(agg.merch_tot, TopN),
             top_areas |-> HeadN(agg.area_tot, TopN),
             shell_by_station |-> sa,
             monthly_totals |-> agg.monthly]
    /\ pc' = "write_json"
    /\ UNCHANGED <<input, df, agg, artifacts, pvars>>

\* lines 265-266
WriteJson ==
    /\ pc = "write_json"
    /\ artifacts' = artifacts \cup {"summary_json"}
    /\ pc' = "report"
    /\ UNCHANGED <<input, df, agg, summary, pvars>>

\* lines 326-329: index[0] of an empty series raises IndexError
ReportRaises == agg.type_tot = <<>> \/ agg.pay_tot = <<>>

ReportFail ==
    /\ pc = "report"
    /\ ReportRaises
    /\ pc' = "failed"
    /\ UNCHANGED <<input, df, agg, summary, artifacts, pvars>>

\* lines 269-396
BuildReport ==
    /\ pc = "report"
    /\ ~ReportRaises
    /\ artifacts' = artifacts \cup {"report_pdf"}
    /\ pc' = "done"
    /\ UNCHANGED <<input, df, agg, summary, pvars>>

Next ==
    \/ EnrichFail \/ Enrich \/ AggregateFail \/ Aggregate \/ SaveCharts
    \/ HeatmapFail \/ Heatmap \/ BuildSummary \/ WriteJson \/ ReportFail \/ BuildReport

Spec == Init /\ [][Next]_vars

(***************************************************************************)
(* Properties of parse_location (checked under SpecParse)                  *)
(***************************************************************************)
IsBlank(x) == x = NULL \/ \A i \in 1..Len(x) : x[i] \in Whitespace

BrandPrefixes ==
    { <<"s", "h", "e", "l", "l">>, <<"t", "o", "t", "a", "l">>, <<"h", "o", "m", "e">>, <<"l", "o", "v", "e", " ", "d", "a", "l", "e">>, <<"d", "u", "p", "o", "i", "n", "t">>, <<"d", "u", "p", "o", "n", "t">>,
      <<"g", "r", "e", "e", "n", "v", "i", "e", "w">>, <<"f", "i", "s", "h", " ", "p", "i", "t", " ", "h", "u", "b">>, <<"j", "u", "n", "c", "t", "i", "o", "n", " ", "p", "i", "z", "z", "a", " ", "i", "n", "n">>, <<"j", "u", "n", "c", "t", "i", "o", "n", " ", "m", "a", "l", "l">>,
      <<"l", "e", "o", "f", "r", "e", "s", "h">>, <<"n", "a", "i", "r", "o", "b", "i", " ", "c", "h", "a", "p", "e", "l">>, <<"k", "a", "r", "u", "r", "a", " ", "f", "o", "r", "e", "s", "t">>, <<"r", "o", "c", "k", "w", "e", "l", "l">>, <<"k", "i", "s", "i", "i">>,
      <<"n", "a", "i", "v", "a", "s", "h", "a", " ", "r", "o", "a", "d">> }

MatchesBrand(x) == \E p \in BrandPrefixes : StartsWith(Lower(x), p)

FallbackRules == {"underscore", "words", "first two words"}

\* C1: parse_location returns, for every argument (null, blank or not), a
\* merchant and an area that are both non-empty.
C1_NeverEmpty == ppc = "return" => (res.merchant # <<>> /\ res.area # <<>>)

\* C2: for a null or blank argument parse_location returns ("Unknown",
\* "Unknown") from the null/blank check itself, before any brand rule or
\* fallback step.
C2_BlankIsUnknown ==
    (ppc = "return" /\ IsBlank(loc)) => res = Ret(Unknown, Unknown, "isna")

\* the brand rules that derive the area from the input, with their labels
DerivingRules ==
    { "shell", "total", "home", "love dale", "dupoint", "greenview", "fish pit hub",
      "leofresh", "nairobi chapel", "rockwell" }

CanonicalLabel(rule) ==
    CASE rule = "shell" -> <<"S", "h", "e", "l", "l">>
      [] rule = "total" -> <<"T", "o", "t", "a", "l">>
      [] rule = "home" -> <<"H", "o", "m", "e">>
      [] rule = "love dale" -> <<"L", "o", "v", "e", " ", "D", "a", "l", "e", " ", "B", "u", "t", "c", "h", "e", "r", "y">>
      [] rule = "dupoint" -> <<"D", "u", "p", "o", "i", "n", "t", " ", "L", "o", "u", "n", "g", "e">>
      [] rule = "greenview" -> <<"G", "r", "e", "e", "n", "v", "i", "e", "w", " ", "R", "e", "s", "t", "a", "u", "r", "a", "n", "t">>
      [] rule = "fish pit hub" -> <<"F", "i", "s", "h", " ", "P", "i", "t", " ", "H", "u", "b">>
      [] rule = "leofresh" -> <<"L", "e", "o", "F", "r", "e", "s", "h">>
      [] rule = "nairobi chapel" -> <<"N", "a", "i", "r", "o", "b", "i", " ", "C", "h", "a", "p", "e", "l">>
      [] rule = "rockwell" -> <<"R", "o", "c", "k", "w", "e", "l", "l", " ", "S", "e", "r", "v", "i", "c", "e", " ", "S", "t", "a", "t", "i", "o", "n">>

\* the length of the prefix the rule matched on
MatchedPrefixLen(rule, x) ==
    CASE rule = "shell" -> 5
      [] rule = "total" -> 5
      [] rule = "home" -> 4
      [] rule = "love dale" -> IF StartsWith(Lower(x), <<"l", "o", "v", "e", " ", "d", "a", "l", "e", " ", "b", "u", "t", "c", "h", "e", "r", "y">>) THEN 18 ELSE 9
      [] rule = "dupoint" -> IF StartsWith(Lower(x), <<"d", "u", "p", "o", "i", "n", "t">>) THEN 7 ELSE 6
      [] rule = "greenview" -> 9
      [] rule = "fish pit hub" -> 12
      [] rule = "leofresh" -> 8
      [] rule = "nairobi chapel" -> 14
      [] rule = "rockwell" -> 8

\* what remains of x: the text after the first separator for the rules that
\* split on one, the text after the matched prefix otherwise
Remainder(rule, x) ==
    LET seps == IF rule = "home" THEN {"_", "-"}
                ELSE IF rule = "love dale" THEN {"_"} ELSE {}
        i == FindFirst(x, seps)
    IN  IF i # 0 THEN From(x, i) ELSE From(x, MatchedPrefixLen(rule, x))

\* C9: a brand rule that derives its area returns its canonical merchant and,
\* as area, the remainder of the input after the matched prefix (after the
\* first separator for the splitting rules) with space, comma, hyphen and
\* underscore stripped from both ends; "Unknown" only for an empty remainder.
C9_AreaIsRemainder ==
    (ppc = "return" /\ res.rule \in DerivingRules) =>
        /\ res.merchant = CanonicalLabel(res.rule)
        /\ res.area = OrUnknown(Strip(Remainder(res.rule, s), Separators))

CountSpaces(x) == Cardinality({i \in 1..Len(x) : x[i] = " "})

\* the fallback result r for the normalized string x, as the claim words it
FallbackExpected(x, r) ==
    IF \E i \in 1..Len(x) : x[i] = "_"
    THEN \E i \in 1..Len(x) :
            /\ x[i] = "_"
            /\ \A j \in 1..(i - 1) : x[j] # "_"
            /\ r.merchant = OrUnknown(Strip(SubSeq(x, 1, i - 1), {" "}))
            /\ r.area = OrUnknown(Strip(SubSeq(x, i + 1, Len(x)), {" "}))
    ELSE IF CountSpaces(x) <= 1
    THEN r.merchant = x /\ r.area = Unknown
    ELSE /\ r.merchant \o <<" ">> \o r.area = x
         /\ CountSpaces(r.merchant) = 1
         /\ r.area # <<>>

\* C10: a non-blank argument that matches no brand rule gets the fallback
\* result (split at the first underscore, else whole string for at most two
\* words, else first two words and the rest); an argument that matches a
\* brand rule never returns from the fallback.
C10_Fallback ==
    (ppc = "return" /\ ~IsBlank(loc)) =>
        IF MatchesBrand(s)
        THEN res.rule \notin FallbackRules
        ELSE res.rule \in FallbackRules /\ FallbackExpected(s, res)

\* the fallback has split a string of more than two words and another at an
\* underscore that is not the only one
C10_Witness ==
    /\ ppc = "return"
    /\ ~IsBlank(loc)
    /\ ~MatchesBrand(s)
    /\ \/ res.rule = "first two words" /\ res.area # Unknown
       \/ res.rule = "underscore" /\ Cardinality({i \in 1..Len(s) : s[i] = "_"}) > 1
                                  /\ res.merchant # Unknown /\ res.area # Unknown

(***************************************************************************)
(* Properties of main (checked under Spec)                                 *)
(***************************************************************************)
Aggregated == pc \in {"charts", "heatmap", "summary", "write_json", "report", "done"}
Exported == "summary_json" \in artifacts

RECURSIVE SumSeries(_)
SumSeries(series) ==
    IF series = <<>> THEN 0 ELSE Head(series).amount + SumSeries(Tail(series))

\* C3: when a run of main has failed, no chart, no summary JSON and no PDF
\* report has been written.
C3_NoArtifactOnFailure == pc = "failed" => artifacts = {}

\* C4: for each of Month, Type, Payment type, Merchant and Area the group sums
\* add up to the grand total of Amount.
C4_SumConservation ==
    Aggregated =>
        /\ SumSeries(agg.monthly) = agg.total
        /\ SumSeries(agg.type_tot) = agg.total
        /\ SumSeries(agg.pay_tot) = agg.total
        /\ SumSeries(agg.merch_tot) = agg.total
        /\ SumSeries(agg.area_tot) = agg.total

\* the index of the first row of rows whose column col holds k
FirstSeen(rows, col, k) ==
    CHOOSE i \in 1..Len(rows) : rows[i][col] = k /\ \A j \in 1..(i - 1) : rows[j][col] # k

TiesInFirstSeenOrder(list, rows, col) ==
    \A i, j \in 1..Len(list) :
        (i < j /\ list[i].amount = list[j].amount) =>
            FirstSeen(rows, col, list[i].key) < FirstSeen(rows, col, list[j].key)

\* C5: in by_type, by_payment, top_merchants, top_areas and shell_by_station
\* two groups with equal sums stand in the order their keys first appear in
\* the ledger.
C5_TiesFirstSeen ==
    Exported =>
        /\ TiesInFirstSeenOrder(summary.by_type, df, "Type")
        /\ TiesInFirstSeenOrder(summary.by_payment, df, "Payment")
        /\ TiesInFirstSeenOrder(summary.top_merchants, df, "Merchant")
        /\ TiesInFirstSeenOrder(summary.top_areas, df, "Area")
        /\ TiesInFirstSeenOrder(summary.shell_by_station,
                                SelectRows(df, "Merchant", <<"S", "h", "e", "l", "l">>), "Area")

MonthsAt(v) ==
    {summary.monthly_totals[i].key :
        i \in {j \in 1..Len(summary.monthly_totals) : summary.monthly_totals[j].amount = v}}

IsMaxTotal(v) ==
    /\ MonthsAt(v) # {}
    /\ \A i \in 1..Len(summary.monthly_totals) : summary.monthly_totals[i].amount <= v

IsMinTotal(v) ==
    /\ MonthsAt(v) # {}
    /\ \A i \in 1..Len(summary.monthly_totals) : summary.monthly_totals[i].amount >= v

Earliest(m, ms) == m \in ms /\ \A o \in ms \ {m} : StrLess(m, o)
Latest(m, ms) == m \in ms /\ \A o \in ms \ {m} : StrLess(o, m)

\* C6 as stated: highest_month is the earliest month holding the maximum
\* monthly total, lowest_month the latest month holding the minimum.
C6_LowestIsLatestTie ==
    Exported =>
        /\ IsMaxTotal(summary.kpis.highest_month.amount)
        /\ Earliest(summary.kpis.highest_month.month, MonthsAt(summary.kpis.highest_month.amount))
        /\ IsMinTotal(summary.kpis.lowest_month.amount)
        /\ Latest(summary.kpis.lowest_month.month, MonthsAt(summary.kpis.lowest_month.amount))

\* C6 amended: highest_month is the earliest month holding the maximum monthly
\* total and lowest_month is the earliest month holding the minimum.
C6_EarliestTie ==
    Exported =>
        /\ IsMaxTotal(summary.kpis.highest_month.amount)
        /\ Earliest(summary.kpis.highest_month.month, MonthsAt(summary.kpis.highest_month.amount))
        /\ IsMinTotal(summary.kpis.lowest_month.amount)
        /\ Earliest(summary.kpis.lowest_month.month, MonthsAt(summary.kpis.lowest_month.amount))

\* a summary was exported in which two months tie for the minimum and a
\* third month holds the maximum
C6_Witness ==
    /\ Exported
    /\ Cardinality(MonthsAt(summary.kpis.lowest_month.amount)) > 1
    /\ summary.kpis.highest_month.amount > summary.kpis.lowest_month.amount

NonIncreasing(list) == \A i \in 1..(Len(list) - 1) : list[i].amount >= list[i + 1].amount

\* C7: in the exported summary by_type, by_payment, top_merchants and top_areas
\* are non-increasing by amount, top_merchants and top_areas have at most 10
\* entries, and monthly_totals is strictly increasing by month label.
C7_Ordering ==
    Exported =>
        /\ NonIncreasing(summary.by_type)
        /\ NonIncreasing(summary.by_payment)
        /\ NonIncreasing(summary.top_merchants)
        /\ NonIncreasing(summary.top_areas)
        /\ Len(summary.top_merchants) <= 10
        /\ Len(summary.top_areas) <= 10
        /\ \A i \in 1..(Len(summary.monthly_totals) - 1) :
               StrLess(summary.monthly_totals[i].key, summary.monthly_totals[i + 1].key)

\* a run succeeded on a ledger of more than 10 merchants and areas in three months
C7_Witness ==
    /\ pc = "done"
    /\ Len(agg.merch_tot) > 10 /\ Len(summary.top_merchants) = 10
    /\ Len(agg.area_tot) > 10 /\ Len(summary.top_areas) = 10
    /\ summary.top_merchants[1].amount > summary.top_merchants[10].amount
    /\ Len(summary.monthly_totals) = 3

\* C8: every exported share_pct is a finite number, also when the grand total
\* is 0, and equals 100 * group sum / grand total rounded to one decimal.
C8_SharesFinite ==
    Exported =>
        \A l \in {summary.by_type, summary.by_payment} :
            \A i \in 1..Len(l) :
                /\ l[i].share_pct.kind = "finite"
                /\ 2 * summary.kpis.total_spend * l[i].share_pct.tenths
                       - 2000 * l[i].amount \in
                   (0 - summary.kpis.total_spend)..summary.kpis.total_spend
                   \cup summary.kpis.total_spend..(0 - summary.kpis.total_spend)

====
